---------------------------- MODULE Spec2Model ----------------------------
(***************************************************************************)
(* Model of arbutler2003/reddit_listener.                                  *)
(*                                                                         *)
(*   modules/gui.py              App: start_monitoring, stop_monitoring,   *)
(*                               check_queue, reddit_monitor_worker        *)
(*   modules/reddit_listener.py  stream_reddit_activity (the generator the *)
(*                               worker thread iterates)                   *)
(*                                                                         *)
(* One GUI thread (the Tk main loop: the two buttons and the 100 ms        *)
(* check_queue timer) and one thread per start_monitoring call.  A worker  *)
(* thread runs reddit_monitor_worker, which drives the generator           *)
(* stream_reddit_activity synchronously: pc[w] is the worker's position,   *)
(* "w_..." inside reddit_monitor_worker and "g_..." inside the generator.  *)
(* Thread 0 is the main thread of reddit_listener.py run as a script,      *)
(* which iterates the same generator and prints the items ("m_...").       *)
(* The Reddit service is the environment: it makes items available on the  *)
(* two sources, and each pull from a stream returns the next available     *)
(* item, returns None when there is none (pause_after=0), or raises.       *)
(***************************************************************************)
EXTENDS Integers, Sequences, FiniteSets

(***************************************************************************)
(* Bounds of the model (the environment's budgets).                        *)
(***************************************************************************)
\* start_monitoring calls explored under Spec
MaxStarts == 2
\* failures the service injects, over all workers, under Spec
MaxGuiFaults == 1
\* items the service makes available, over all workers, under Spec
MaxGuiItems == 1
\* failures the service injects under SpecStream (one session)
MaxFaults == 5
\* items the service makes available under SpecStream (one session); also
\* the most items a source holds unpulled at any time
MaxItems == 2
\* failures the service injects under SpecScript (the standalone script)
MaxScriptFaults == 1

(***************************************************************************)
(* Program constants.                                                      *)
(***************************************************************************)
\* reddit_listener.py:94  backoff_seconds = 5
initial_backoff_seconds == 5
\* reddit_listener.py:95  max_backoff_seconds = 120
max_backoff_seconds == 120
\* reddit_listener.py:120  time.sleep(0.5), in milliseconds
idle_sleep_ms == 500
\* reddit_listener.py:147  time.sleep(15)
unknown_sleep_seconds == 15

\* The threads started by start_monitoring.
Workers == 1..MaxStarts

\* The main thread of reddit_listener.py run as a script (lines 150-179).
MainThread == 0

Threads == {MainThread} \cup Workers

\* An unbound item variable.
None == <<>>

\* No exception in flight.
NoExc == "None"

\* A budget that is never used up.
Unlimited == 0 - 1

Min(a, b) == IF a <= b THEN a ELSE b

\* Item numbers of a source are kept modulo IdMod; a source never holds more
\* than MaxItems unpulled items, so the numbers of the items it holds are
\* distinct.
IdMod == MaxItems + 1

VARIABLES
    running,          \* App.running
    start_button,     \* state of App.start_button: "normal" | "disabled"
    stop_button,      \* state of App.stop_button
    monitor_thread,   \* App.monitor_thread: 0 for None, else the latest thread
    message_queue,    \* App.message_queue (queue.Queue, FIFO, unbounded)
    log_area,         \* the text of App.log_area, one entry per log() call
    pc,               \* pc[w]: position of thread w
    cfg_missing,      \* the required environment variables load_dotenv/getenv
                      \* left unset for the initialize_reddit call in progress
    backoff_seconds,  \* the generator's local backoff_seconds
    sleep_for,        \* the generator's local sleep_for (0: not yet bound)
    item,             \* the consumer's loop variable item (None: not yet bound)
    exc,              \* the exception being handled or propagated, or None
    pulled,           \* pulled[w][s]: position of w's stream in source s
    avail,            \* avail[w][s]: items source s holds beyond that position
    sleeping,         \* the time.sleep in progress in w, in ms (0: none)
    pass_yielded,     \* history: the current merge pass has yielded an item
    sleeps,           \* history: the transient-failure sleeps of worker w since
                      \* its streams were last opened successfully
    cause,            \* history: why worker w left its loop: "none"|"stop"|"error"
    puts,             \* history: every message put on message_queue, in order
    handed,           \* history: every message check_queue passed to log()
    budget            \* what the environment may still do: starts, faults, items

vars == <<running, start_button, stop_button, monitor_thread, message_queue,
          log_area, pc, cfg_missing, backoff_seconds, sleep_for, item, exc,
          pulled, avail, sleeping, pass_yielded, sleeps, cause, puts, handed,
          budget>>

gui_vars == <<running, start_button, stop_button, monitor_thread, log_area,
              handed>>

----------------------------------------------------------------------------
(***************************************************************************)
(* Exceptions.  The except clauses of stream_reddit_activity select by     *)
(* class, first match first; Mro(e) is the set of classes e is an instance *)
(* of (prawcore.exceptions: Forbidden, NotFound, InvalidToken and          *)
(* ServerError derive from ResponseException; OAuthException,              *)
(* RequestException and ResponseException from PrawcoreException).         *)
(***************************************************************************)
Mro(e) ==
    CASE e = "KeyboardInterrupt" -> {"KeyboardInterrupt", "BaseException"}
      [] e \in {"Forbidden", "NotFound", "InvalidToken", "ServerError"} ->
            {e, "ResponseException", "PrawcoreException", "Exception", "BaseException"}
      [] e \in {"OAuthException", "RequestException", "ResponseException"} ->
            {e, "PrawcoreException", "Exception", "BaseException"}
      [] e = "RuntimeError" -> {e, "Exception", "BaseException"}
      [] OTHER -> {e, "Exception", "BaseException"}

IsInstance(e, classes) == Mro(e) \cap classes # {}

\* What the service can raise from opening a stream or pulling from it.  A
\* KeyboardInterrupt is delivered to the main thread only, never to a worker.
StreamErrors ==
    {"Forbidden", "NotFound", "OAuthException", "InvalidToken",
     "RequestException", "ResponseException", "ServerError", "Exception"}

AccessErrors == {"Forbidden", "NotFound"}
AuthErrors == {"OAuthException", "InvalidToken"}
TransientErrors == {"RequestException", "ResponseException", "ServerError"}

\* The except clauses without the final "except Exception".
ExceptClauses_NoCatchAll ==
    << [classes |-> {"KeyboardInterrupt"}, policy |-> "reraise"],
       [classes |-> AccessErrors, policy |-> "reraise"],
       [classes |-> AuthErrors, policy |-> "reraise"],
       [classes |-> TransientErrors, policy |-> "transient"] >>

\* The except clauses with the transient clause moved to the front.
ExceptClauses_TransientFirst ==
    << [classes |-> TransientErrors, policy |-> "transient"],
       [classes |-> {"KeyboardInterrupt"}, policy |-> "reraise"],
       [classes |-> AccessErrors, policy |-> "reraise"],
       [classes |-> AuthErrors, policy |-> "reraise"],
       [classes |-> {"Exception"}, policy |-> "unknown"] >>

\* The except clauses of stream_reddit_activity, in source order.
ExceptClauses ==
    << [classes |-> {"KeyboardInterrupt"}, policy |-> "reraise"],
       [classes |-> AccessErrors, policy |-> "reraise"],
       [classes |-> AuthErrors, policy |-> "reraise"],
       [classes |-> TransientErrors, policy |-> "transient"],
       [classes |-> {"Exception"}, policy |-> "unknown"] >>

\* The policy of the first clause that matches e; an exception no clause
\* matches propagates.
Handler(e) ==
    LET hits == {i \in DOMAIN ExceptClauses : IsInstance(e, ExceptClauses[i].classes)}
    IN  IF hits = {} THEN "reraise"
        ELSE ExceptClauses[CHOOSE i \in hits : \A j \in hits : i <= j].policy

(***************************************************************************)
(* The backoff arithmetic of the transient handler.                        *)
(***************************************************************************)
\* the handler sleeping backoff_seconds itself
SleepFor_NoGrowth(b) == Min(max_backoff_seconds, b)

\* sleep_for = min(max_backoff_seconds, int(backoff_seconds * 1.5))
SleepFor(b) == Min(max_backoff_seconds, (b * 3) \div 2)

\* the assignment without its cap
NextBackoff_NoCap(s) == s * 2

\* backoff_seconds = min(max_backoff_seconds, sleep_for * 2)
NextBackoff(s) == Min(max_backoff_seconds, s * 2)

\* the streams opened and the backoff left as it was
ResetBackoff_Missing(b) == b

\* "Reset backoff.": backoff_seconds = 5 once both streams are opened
ResetBackoff(b) == 5

----------------------------------------------------------------------------
(***************************************************************************)
(* Messages: what the worker puts on message_queue and what log() appends  *)
(* to log_area.  w is the session (the thread started by that start), kind *)
(* the text's form, item the item an item message renders, error the       *)
(* exception an "Error: ..." message renders.                              *)
(***************************************************************************)
Msg(w, kind, it, e) == [w |-> w, kind |-> kind, item |-> it, error |-> e]

Sources == {"submissions", "comments"}

Alive(w) == pc[w] \notin {"idle", "done"}

GenPcs == {"g_open", "g_sub", "g_com", "g_idle", "g_backoff", "g_sleep15"}

\* The generator of w exists and has not finished: it is running, or it is
\* suspended at a yield while its consumer handles the item.
InGen(w) == pc[w] \in GenPcs \cup {"w_check", "w_put", "m_print"}

\* Both streams of w are open.
StreamsOpen(w) == pc[w] \in {"g_sub", "g_com", "g_idle", "w_check", "w_put", "m_print"}

----------------------------------------------------------------------------
(***************************************************************************)
(* App.__init__                                                            *)
(***************************************************************************)
InitApp ==
    /\ running = FALSE
    /\ start_button = "normal"
    /\ stop_button = "disabled"
    /\ monitor_thread = 0
    /\ message_queue = <<>>
    /\ log_area = <<>>
    /\ cfg_missing = [w \in Threads |-> {}]
    /\ backoff_seconds = [w \in Threads |-> 0]
    /\ sleep_for = [w \in Threads |-> 0]
    /\ item = [w \in Threads |-> None]
    /\ exc = [w \in Threads |-> NoExc]
    /\ pulled = [w \in Threads |-> [s \in Sources |-> 0]]
    /\ avail = [w \in Threads |-> [s \in Sources |-> 0]]
    /\ sleeping = [w \in Threads |-> 0]
    /\ pass_yielded = [w \in Threads |-> FALSE]
    /\ sleeps = [w \in Threads |-> <<>>]
    /\ cause = [w \in Threads |-> "none"]
    /\ puts = <<>>
    /\ handed = <<>>

Init ==
    /\ InitApp
    /\ pc = [w \in Threads |-> "idle"]
    /\ budget = [starts |-> MaxStarts, faults |-> MaxGuiFaults, items |-> MaxGuiItems]

\* A single session: one start_monitoring, and a larger budget of failures.
InitStream ==
    /\ InitApp
    /\ pc = [w \in Threads |-> "idle"]
    /\ budget = [starts |-> 1, faults |-> MaxFaults, items |-> MaxItems]

\* reddit_listener.py run as a script: no GUI; the main thread is about to
\* call initialize_reddit, and the service may go on making items available
\* for ever.
InitScript ==
    /\ InitApp
    /\ pc = [w \in Threads |-> IF w = MainThread THEN "m_init" ELSE "idle"]
    /\ budget = [starts |-> 0, faults |-> MaxScriptFaults, items |-> Unlimited]

----------------------------------------------------------------------------
(***************************************************************************)
(* The GUI thread.                                                         *)
(***************************************************************************)
queue_vars == <<message_queue, puts>>

gen_vars == <<backoff_seconds, sleep_for, pulled, avail, sleeping,
              pass_yielded, sleeps>>

\* App.start_monitoring, the command of start_button (enabled only).
StartMonitoring ==
    /\ start_button = "normal"
    /\ budget.starts > 0
    /\ monitor_thread + 1 \in Workers
    /\ running' = TRUE
    /\ start_button' = "disabled"
    /\ stop_button' = "normal"
    /\ monitor_thread' = monitor_thread + 1
    /\ pc' = [pc EXCEPT ![monitor_thread + 1] = "w_start"]
    /\ budget' = [budget EXCEPT !.starts = @ - 1]
    /\ UNCHANGED <<log_area, handed, queue_vars, gen_vars, cfg_missing, item,
                   exc, cause>>

\* App.stop_monitoring, the command of stop_button (enabled only).
StopMonitoring ==
    /\ stop_button = "normal"
    /\ running' = FALSE
    /\ start_button' = "normal"
    /\ stop_button' = "disabled"
    /\ log_area' = Append(log_area, Msg(monitor_thread, "stopping", None, NoExc))
    /\ UNCHANGED <<monitor_thread, handed, queue_vars, pc, gen_vars,
                   cfg_missing, item, exc, cause, budget>>

\* A LIFO queue: get_nowait returns the newest message first.
RECURSIVE GetAll_Lifo(_)
GetAll_Lifo(q) == IF q = <<>> THEN <<>> ELSE Append(GetAll_Lifo(Tail(q)), Head(q))

\* lines 80-86: what the get_nowait loop of check_queue retrieves from a
\* queue.Queue holding q, in retrieval order, before queue.Empty is raised.
GetAll(q) == q

\* App.check_queue: get_nowait until queue.Empty, logging each message; the
\* queue.Empty of an empty queue is caught at once and the timer is rearmed.
CheckQueue ==
    /\ log_area' = log_area \o GetAll(message_queue)
    /\ handed' = handed \o GetAll(message_queue)
    /\ message_queue' = <<>>
    /\ UNCHANGED <<running, start_button, stop_button, monitor_thread, puts, pc,
                   gen_vars, cfg_missing, item, exc, cause, budget>>

----------------------------------------------------------------------------
(***************************************************************************)
(* initialize_reddit, as the worker thread runs it.                        *)
(***************************************************************************)
\* lines 40-46: required_env_vars
RequiredEnvVars ==
    {"REDDIT_CLIENT_ID", "REDDIT_CLIENT_SECRET", "REDDIT_USER_AGENT",
     "REDDIT_USERNAME", "REDDIT_PASSWORD"}

\* The settings without which the praw.Reddit constructor of lines 51-57
\* raises (client_id and user_agent passed as None).
ClientRequired == {"REDDIT_CLIENT_ID", "REDDIT_USER_AGENT"}

\* The environments considered: complete, or one required variable unset.
ConfigChoices == {{}} \cup {{v} : v \in RequiredEnvVars}

\* An incomplete environment is one of the failures of the budget.
UseFaultIf(c) ==
    IF c THEN budget.faults > 0 /\ budget' = [budget EXCEPT !.faults = @ - 1]
         ELSE UNCHANGED budget

----------------------------------------------------------------------------
(***************************************************************************)
(* The worker thread: reddit_monitor_worker.                               *)
(***************************************************************************)
Put(m) ==
    /\ message_queue' = Append(message_queue, m)
    /\ puts' = Append(puts, m)

\* The generator of w finishes (an exception leaves it, or the for loop that
\* owns it is left): its frame and its streams are gone.
EndGenerator(w) ==
    /\ backoff_seconds' = [backoff_seconds EXCEPT ![w] = 0]
    /\ sleep_for' = [sleep_for EXCEPT ![w] = 0]
    /\ pulled' = [pulled EXCEPT ![w] = [s \in Sources |-> 0]]
    /\ avail' = [avail EXCEPT ![w] = [s \in Sources |-> 0]]
    /\ sleeping' = [sleeping EXCEPT ![w] = 0]
    /\ pass_yielded' = [pass_yielded EXCEPT ![w] = FALSE]
    /\ sleeps' = [sleeps EXCEPT ![w] = <<>>]

\* line 97: message_queue.put("Starting Reddit monitor.\n")
WorkerStart(w) ==
    /\ pc[w] = "w_start"
    /\ Put(Msg(w, "start", None, NoExc))
    /\ pc' = [pc EXCEPT ![w] = "w_init"]
    /\ UNCHANGED <<gui_vars, gen_vars, cfg_missing, item, exc, cause, budget>>

\* initialize_reddit lines 38-57: load_dotenv, the five os.getenv calls and
\* the praw.Reddit constructor.  required_env_vars is built and never read:
\* no variable is checked, and an unset one reaches the constructor as None.
LoadConfig(w) ==
    /\ pc[w] = "w_init"
    /\ \E miss \in ConfigChoices :
          /\ miss \cap ClientRequired = {}
          /\ UseFaultIf(miss # {})
          /\ cfg_missing' = [cfg_missing EXCEPT ![w] = miss]
    /\ pc' = [pc EXCEPT ![w] = "w_auth"]
    /\ UNCHANGED <<gui_vars, queue_vars, gen_vars, item, exc, cause>>

\* initialize_reddit lines 51-57: the constructor raises for a client_id or
\* user_agent of None (praw.exceptions.MissingRequiredAttributeException),
\* outside the try of lines 59-73.
ClientFails(w) ==
    /\ pc[w] = "w_init"
    /\ \E miss \in ConfigChoices :
          /\ miss \cap ClientRequired # {}
          /\ UseFaultIf(TRUE)
    /\ exc' = [exc EXCEPT ![w] = "MissingRequiredAttributeException"]
    /\ cause' = [cause EXCEPT ![w] = "error"]
    /\ pc' = [pc EXCEPT ![w] = "w_except"]
    /\ UNCHANGED <<gui_vars, queue_vars, gen_vars, cfg_missing, item>>

\* initialize_reddit lines 59-63 and gui.py lines 98-103: reddit.user.me()
\* returns, "Connection successful." is put, and the first next() on the
\* generator runs its lines 89-95.
WorkerInit(w) ==
    /\ pc[w] = "w_auth"
    /\ Put(Msg(w, "connected", None, NoExc))
    /\ cfg_missing' = [cfg_missing EXCEPT ![w] = {}]
    /\ backoff_seconds' = [backoff_seconds EXCEPT ![w] = initial_backoff_seconds]
    /\ pc' = [pc EXCEPT ![w] = "g_open"]
    /\ UNCHANGED <<gui_vars, sleep_for, pulled, avail, sleeping, pass_yielded,
                   sleeps, item, exc, cause, budget>>

\* initialize_reddit lines 64-73: reddit.user.me() raises and RuntimeError
\* (authentication failed) is raised from it.
WorkerInitFails(w) ==
    /\ pc[w] = "w_auth"
    /\ UseFaultIf(cfg_missing[w] = {})
    /\ cfg_missing' = [cfg_missing EXCEPT ![w] = {}]
    /\ exc' = [exc EXCEPT ![w] = "RuntimeError"]
    /\ cause' = [cause EXCEPT ![w] = "error"]
    /\ pc' = [pc EXCEPT ![w] = "w_except"]
    /\ UNCHANGED <<gui_vars, queue_vars, gen_vars, item>>

\* With the break of lines 104-105 missing.
AfterCheck_NoBreak(r) == "w_put"

\* lines 104-105, "if not self.running: break": where the worker goes when
\* self.running reads r.
AfterCheck(r) == IF ~r THEN "w_finally" ELSE "w_put"

\* lines 104-105: the flag is read once an item has been yielded.
WorkerCheck(w) ==
    /\ pc[w] = "w_check"
    /\ pc' = [pc EXCEPT ![w] = AfterCheck(running)]
    /\ cause' = [cause EXCEPT ![w] = IF ~running THEN "stop" ELSE @]
    /\ IF AfterCheck(running) = "w_finally"
         THEN EndGenerator(w)
         ELSE UNCHANGED gen_vars
    /\ UNCHANGED <<gui_vars, queue_vars, cfg_missing, item, exc, budget>>

\* lines 107-121: format the item, put the message, and resume the generator
\* after the yield that produced the item.  The streams yield Submissions and
\* Comments only, so the "else: continue" of lines 119-120 is never taken.
WorkerPut(w) ==
    /\ pc[w] = "w_put"
    /\ Put(Msg(w, "item", item[w], NoExc))
    /\ pc' = [pc EXCEPT ![w] = IF item[w][1] = "submissions" THEN "g_sub" ELSE "g_com"]
    /\ UNCHANGED <<gui_vars, gen_vars, cfg_missing, item, exc, cause, budget>>

\* The except clause of the worker leaving the function at once.
AfterExcept_NoFinally == "done"

\* lines 122-125: the finally clause runs after the except clause.
AfterExcept == "w_finally"

\* lines 122-123: except Exception as e: put(f"Error: {e}")
WorkerExcept(w) ==
    /\ pc[w] = "w_except"
    /\ Put(Msg(w, "error", None, exc[w]))
    /\ exc' = [exc EXCEPT ![w] = NoExc]
    /\ pc' = [pc EXCEPT ![w] = AfterExcept]
    /\ UNCHANGED <<gui_vars, gen_vars, cfg_missing, item, cause, budget>>

\* lines 124-125: finally: put("Stopping Reddit monitor."); the thread ends.
WorkerFinally(w) ==
    /\ pc[w] = "w_finally"
    /\ Put(Msg(w, "stopping", None, NoExc))
    /\ item' = [item EXCEPT ![w] = None]
    /\ pc' = [pc EXCEPT ![w] = "done"]
    /\ UNCHANGED <<gui_vars, gen_vars, cfg_missing, exc, cause, budget>>

----------------------------------------------------------------------------
(***************************************************************************)
(* The main thread of reddit_listener.py run as a script.                  *)
(***************************************************************************)
\* lines 154-160: initialize_reddit() returns and the for loop makes its
\* first next() on the generator.
MainInit ==
    /\ pc[MainThread] = "m_init"
    /\ backoff_seconds' = [backoff_seconds EXCEPT ![MainThread] = initial_backoff_seconds]
    /\ pc' = [pc EXCEPT ![MainThread] = "g_open"]
    /\ UNCHANGED <<gui_vars, queue_vars, cfg_missing, sleep_for, pulled, avail,
                   sleeping, pass_yielded, sleeps, item, exc, cause, budget>>

\* lines 154, 173-175: initialize_reddit() raises RuntimeError; it is logged
\* and the script ends.
MainInitFails ==
    /\ pc[MainThread] = "m_init"
    /\ UseFaultIf(TRUE)
    /\ exc' = [exc EXCEPT ![MainThread] = "RuntimeError"]
    /\ cause' = [cause EXCEPT ![MainThread] = "error"]
    /\ pc' = [pc EXCEPT ![MainThread] = "done"]
    /\ UNCHANGED <<gui_vars, queue_vars, gen_vars, cfg_missing, item>>

\* lines 161-170: the item is printed and the generator is resumed after the
\* yield that produced it.
MainPrint ==
    /\ pc[MainThread] = "m_print"
    /\ pc' = [pc EXCEPT ![MainThread] =
                  IF item[MainThread][1] = "submissions" THEN "g_sub" ELSE "g_com"]
    /\ UNCHANGED <<gui_vars, queue_vars, gen_vars, cfg_missing, item, exc,
                   cause, budget>>

----------------------------------------------------------------------------
(***************************************************************************)
(* The generator: stream_reddit_activity, run by the thread that iterates  *)
(* it.                                                                     *)
(***************************************************************************)
\* What can be raised in thread w while it opens a stream or pulls from it.
\* A KeyboardInterrupt is delivered to the main thread only.
Raisable(w) ==
    IF w = MainThread THEN StreamErrors \cup {"KeyboardInterrupt"} ELSE StreamErrors

\* Where an exception that leaves the generator is caught: the except
\* clauses of the script end it (lines 171-179), the worker's except clause
\* is gui.py line 122.
Catcher(w) == IF w = MainThread THEN "done" ELSE "w_except"

\* Where the consumer of w's generator receives a yielded item.
Consumer(w) == IF w = MainThread THEN "m_print" ELSE "w_check"

\* An exception e raised inside the try block (lines 97-120) reaches the
\* except clauses (lines 122-147).
Raise(w, e) ==
    /\ UseFaultIf(TRUE)
    /\ exc' = [exc EXCEPT ![w] = e]
    /\ CASE Handler(e) = "transient" ->
              \* lines 139-142: sleep_for is computed and the sleep begins
              /\ sleep_for' = [sleep_for EXCEPT ![w] = SleepFor(backoff_seconds[w])]
              /\ sleeps' = [sleeps EXCEPT ![w] = Append(@, SleepFor(backoff_seconds[w]))]
              /\ sleeping' = [sleeping EXCEPT ![w] = 1000 * SleepFor(backoff_seconds[w])]
              /\ pc' = [pc EXCEPT ![w] = "g_backoff"]
              /\ UNCHANGED <<backoff_seconds, pulled, avail, pass_yielded, cause>>
         [] Handler(e) = "unknown" ->
              \* lines 145-147: the 15 s sleep begins
              /\ sleeping' = [sleeping EXCEPT ![w] = 1000 * unknown_sleep_seconds]
              /\ pc' = [pc EXCEPT ![w] = "g_sleep15"]
              /\ UNCHANGED <<backoff_seconds, sleep_for, pulled, avail,
                             pass_yielded, sleeps, cause>>
         [] OTHER ->
              \* lines 124, 128, 132: raise; the generator ends and the
              \* exception reaches the consumer's except clause
              /\ pc' = [pc EXCEPT ![w] = Catcher(w)]
              /\ cause' = [cause EXCEPT ![w] = "error"]
              /\ EndGenerator(w)
    /\ UNCHANGED <<gui_vars, queue_vars, cfg_missing, item>>

\* The service makes one more item of source s available to the streams of
\* w.
Arrive(w, s) ==
    /\ StreamsOpen(w)
    /\ budget.items # 0
    /\ avail[w][s] < MaxItems
    /\ avail' = [avail EXCEPT ![w][s] = @ + 1]
    /\ budget' = IF budget.items > 0 THEN [budget EXCEPT !.items = @ - 1] ELSE budget
    /\ UNCHANGED <<gui_vars, queue_vars, pc, cfg_missing, backoff_seconds,
                   sleep_for, item, exc, pulled, sleeping, pass_yielded, sleeps,
                   cause>>

\* A stream opened with skip_existing=False: it starts at the oldest item
\* the source holds.
SkipExisting_Off(p, a) == [pulled |-> 0, avail |-> Min(p + a, MaxItems)]

\* lines 101-102, skip_existing=True: a stream opened on a source whose
\* previous stream was at position p with a items unpulled starts behind the
\* newest item.
SkipExisting(p, a) == [pulled |-> (p + a) % IdMod, avail |-> 0]

\* lines 98-105: both streams are opened and the backoff is reset; line 108:
\* the first pass begins.
OpenStreams(w) ==
    /\ pc[w] = "g_open"
    /\ backoff_seconds' = [backoff_seconds EXCEPT ![w] = ResetBackoff(@)]
    /\ pulled' = [pulled EXCEPT ![w] =
                      [s \in Sources |-> SkipExisting(pulled[w][s], avail[w][s]).pulled]]
    /\ avail' = [avail EXCEPT ![w] =
                      [s \in Sources |-> SkipExisting(pulled[w][s], avail[w][s]).avail]]
    /\ pass_yielded' = [pass_yielded EXCEPT ![w] = FALSE]
    /\ sleeps' = [sleeps EXCEPT ![w] = <<>>]
    /\ pc' = [pc EXCEPT ![w] = "g_sub"]
    /\ UNCHANGED <<gui_vars, queue_vars, cfg_missing, sleep_for, sleeping, item,
                   exc, cause, budget>>

\* lines 101-102: opening a stream raises.
OpenStreamsFails(w) ==
    /\ pc[w] = "g_open"
    /\ \E e \in Raisable(w) : Raise(w, e)

\* The next item of source s for the stream of w.
NextItem(w, s) == <<s, pulled[w][s] + 1>>

\* A stream returns an item, which the generator yields (lines 109-112 and
\* 114-117): the consumer's loop body runs with it.
Yield(w, s) ==
    /\ avail[w][s] > 0
    /\ item' = [item EXCEPT ![w] = NextItem(w, s)]
    /\ pulled' = [pulled EXCEPT ![w][s] = (@ + 1) % IdMod]
    /\ avail' = [avail EXCEPT ![w][s] = @ - 1]
    /\ pass_yielded' = [pass_yielded EXCEPT ![w] = TRUE]
    /\ pc' = [pc EXCEPT ![w] = Consumer(w)]
    /\ UNCHANGED <<gui_vars, queue_vars, cfg_missing, backoff_seconds, sleep_for,
                   sleeping, exc, sleeps, cause, budget>>

\* The comments loop skipped.
AfterSubmissions_SkipComments == "g_idle"

\* lines 111-114: the break of the submissions loop leads to the comments
\* loop.
AfterSubmissions == "g_com"

\* lines 109-112: for submission in submissions_stream
PullSubmission(w) ==
    /\ pc[w] = "g_sub"
    /\ \/ Yield(w, "submissions")
       \/ \* the stream has nothing and returns None: break
          /\ avail[w]["submissions"] = 0
          /\ pc' = [pc EXCEPT ![w] = AfterSubmissions]
          /\ sleeping' = [sleeping EXCEPT ![w] =
                              IF AfterSubmissions = "g_idle" THEN idle_sleep_ms ELSE 0]
          /\ UNCHANGED <<gui_vars, queue_vars, cfg_missing, backoff_seconds,
                         sleep_for, pulled, avail, pass_yielded, sleeps, item,
                         exc, cause, budget>>
       \/ \E e \in Raisable(w) : Raise(w, e)

\* The sleep taken only after a pass that yielded nothing.
AfterPass_SleepOnlyWhenIdle(y) == IF y THEN "g_sub" ELSE "g_idle"

\* lines 116-120: the break of the comments loop leads to time.sleep(0.5),
\* whether or not the pass yielded an item (y).
AfterPass(y) == "g_idle"

\* lines 114-117: for comment in comments_stream
PullComment(w) ==
    /\ pc[w] = "g_com"
    /\ \/ Yield(w, "comments")
       \/ \* the stream has nothing and returns None: break; the pass ends
          /\ avail[w]["comments"] = 0
          /\ pc' = [pc EXCEPT ![w] = AfterPass(pass_yielded[w])]
          /\ sleeping' = [sleeping EXCEPT ![w] =
                              IF AfterPass(pass_yielded[w]) = "g_idle"
                                  THEN idle_sleep_ms ELSE 0]
          /\ pass_yielded' = [pass_yielded EXCEPT ![w] =
                                  IF AfterPass(pass_yielded[w]) = "g_idle"
                                      THEN @ ELSE FALSE]
          /\ UNCHANGED <<gui_vars, queue_vars, cfg_missing, backoff_seconds,
                         sleep_for, pulled, avail, sleeps, item, exc, cause,
                         budget>>
       \/ \E e \in Raisable(w) : Raise(w, e)

\* line 120: time.sleep(0.5) ends; line 108: the next pass begins.
IdleSleep(w) ==
    /\ pc[w] = "g_idle"
    /\ sleeping' = [sleeping EXCEPT ![w] = 0]
    /\ pass_yielded' = [pass_yielded EXCEPT ![w] = FALSE]
    /\ pc' = [pc EXCEPT ![w] = "g_sub"]
    /\ UNCHANGED <<gui_vars, queue_vars, cfg_missing, backoff_seconds, sleep_for,
                   pulled, avail, sleeps, item, exc, cause, budget>>

\* lines 142-143: time.sleep(sleep_for) ends, backoff_seconds grows, and the
\* while loop reconnects.
BackoffWake(w) ==
    /\ pc[w] = "g_backoff"
    /\ backoff_seconds' = [backoff_seconds EXCEPT ![w] = NextBackoff(sleep_for[w])]
    /\ sleeping' = [sleeping EXCEPT ![w] = 0]
    /\ exc' = [exc EXCEPT ![w] = NoExc]
    /\ pc' = [pc EXCEPT ![w] = "g_open"]
    /\ UNCHANGED <<gui_vars, queue_vars, cfg_missing, sleep_for, item, pulled,
                   avail, pass_yielded, sleeps, cause, budget>>

\* The unknown-error handler growing the backoff as the transient one does.
AfterUnknown_Grows(b) == Min(max_backoff_seconds, b * 2)

\* lines 144-147: backoff_seconds after the unknown-error handler, which
\* assigns nothing to it.
AfterUnknown(b) == b

\* line 147: time.sleep(15) ends and the while loop reconnects.
UnknownWake(w) ==
    /\ pc[w] = "g_sleep15"
    /\ backoff_seconds' = [backoff_seconds EXCEPT ![w] = AfterUnknown(@)]
    /\ sleeping' = [sleeping EXCEPT ![w] = 0]
    /\ exc' = [exc EXCEPT ![w] = NoExc]
    /\ pc' = [pc EXCEPT ![w] = "g_open"]
    /\ UNCHANGED <<gui_vars, queue_vars, cfg_missing, sleep_for, item, pulled,
                   avail, pass_yielded, sleeps, cause, budget>>

----------------------------------------------------------------------------
\* The steps of reddit_monitor_worker outside the generator.
WorkerSteps(w) ==
    \/ WorkerStart(w)
    \/ LoadConfig(w)
    \/ ClientFails(w)
    \/ WorkerInit(w)
    \/ WorkerInitFails(w)
    \/ WorkerCheck(w)
    \/ WorkerPut(w)
    \/ WorkerExcept(w)
    \/ WorkerFinally(w)

\* The steps of the generator once its streams are requested, opening them
\* never raising (PRAW's stream generators do nothing until first pulled).
GenSteps(w) ==
    \/ OpenStreams(w)
    \/ PullSubmission(w)
    \/ PullComment(w)
    \/ IdleSleep(w)
    \/ BackoffWake(w)
    \/ UnknownWake(w)

WorkerNext(w) ==
    \/ WorkerSteps(w)
    \/ GenSteps(w)
    \/ OpenStreamsFails(w)

\* The service, towards the streams of w.
Service(w) == \E s \in Sources : Arrive(w, s)

Next ==
    \/ StartMonitoring
    \/ StopMonitoring
    \/ CheckQueue
    \/ \E w \in Workers : WorkerNext(w)
    \/ \E w \in Workers : Service(w)

Spec == Init /\ [][Next]_vars

SpecStream == InitStream /\ [][Next]_vars

\* Threads are scheduled fairly and the Tk timer keeps firing; the user and
\* the service owe nothing.
Fairness ==
    /\ \A w \in Workers : WF_vars(WorkerNext(w))
    /\ WF_vars(CheckQueue)

FairSpec == InitStream /\ [][Next]_vars /\ Fairness

\* One session in which opening the streams never raises.
NextLazy ==
    \/ StartMonitoring
    \/ StopMonitoring
    \/ CheckQueue
    \/ \E w \in Workers : WorkerSteps(w) \/ GenSteps(w)
    \/ \E w \in Workers : Service(w)

SpecLazy == InitStream /\ [][NextLazy]_vars

\* The script: its main thread and the service.
ScriptNext ==
    \/ MainInit
    \/ MainInitFails
    \/ MainPrint
    \/ GenSteps(MainThread)
    \/ OpenStreamsFails(MainThread)

NextScript ==
    \/ ScriptNext
    \/ Service(MainThread)

\* The main thread keeps running; the service owes nothing.
FairScript == InitScript /\ [][NextScript]_vars /\ WF_vars(ScriptNext)

----------------------------------------------------------------------------
(***************************************************************************)
(* Properties.                                                             *)
(***************************************************************************)
FatalErrors == AccessErrors \cup AuthErrors

\* pc values at which the generator of w has finished
GenEnded == {"w_except", "w_finally", "done"}

\* The items of the item messages of session w that were put on the queue
\* (still queued, or already logged).
Delivered(w) ==
    LET all == log_area \o message_queue
    IN  {all[i].item : i \in {j \in DOMAIN all : all[j].w = w /\ all[j].kind = "item"}}

\* C1: transient-network and unknown failures never end the generator.  While
\* such a failure is being handled the generator sleeps (the backoff sleep or
\* the 15 s sleep); the sleep is followed by the reopening of both streams;
\* and the generator ends only on an Access or Authorization failure or when
\* the worker leaves its loop having read the flag cleared.
C1_TransientNeverTerminal ==
    /\ [](\A w \in Workers :
             exc[w] \in TransientErrors \cup {"Exception"}
                 => pc[w] \in {"g_backoff", "g_sleep15"})
    /\ [][\A w \in Workers :
             /\ (pc[w] \in {"g_backoff", "g_sleep15"} /\ pc'[w] # pc[w])
                    => pc'[w] = "g_open"
             /\ (InGen(w) /\ pc'[w] \in GenEnded)
                    => \/ exc'[w] \in FatalErrors
                       \/ pc[w] = "w_check" /\ ~running]_vars

\* C1 witness: after two failures that were survived, the streams have been
\* reopened and the generator is pulling again.
C1_Witness ==
    \E w \in Workers :
        /\ pc[w] = "g_sub"
        /\ sleep_for[w] > 0
        /\ budget.faults <= MaxFaults - 2

\* The delays C2 states: d[0] = 5, d[i] = min(120, floor(d[i-1] * 1.5)).
RECURSIVE ClaimedDelay(_)
ClaimedDelay(i) == IF i = 1 THEN 5 ELSE Min(120, (ClaimedDelay(i - 1) * 3) \div 2)

\* The delays of the code: 7, 21, 63, 120, 120, ...
RECURSIVE CodeDelay(_)
CodeDelay(i) == IF i = 1 THEN 7 ELSE Min(120, 3 * CodeDelay(i - 1))

\* C2 as claimed: in a run of consecutive transient failures the i-th sleep
\* is d[i], with d[0] = 5 and d[i] = min(120, floor(d[i-1] * 1.5)).
C2_ClaimedSleeps ==
    \A w \in Workers : \A i \in DOMAIN sleeps[w] : sleeps[w][i] = ClaimedDelay(i)

\* C2 as amended: in a run of transient failures with no successful
\* reopening of the streams in between, the i-th sleep is d[i], with
\* d[0] = 7 and d[i] = min(120, 3 * d[i-1]); once 120 is reached every later
\* sleep of the run is 120.
C2_SleepSequence ==
    \A w \in Workers :
        /\ \A i \in DOMAIN sleeps[w] : sleeps[w][i] = CodeDelay(i)
        /\ \A i, j \in DOMAIN sleeps[w] :
               (i <= j /\ sleeps[w][i] = 120) => sleeps[w][j] = 120

\* C2 witness: a run of five transient failures, the last two at the cap.
C2_Witness ==
    \E w \in Workers :
        /\ pc[w] = "g_backoff"
        /\ Len(sleeps[w]) = 5
        /\ sleeps[w][4] = 120

\* C3 as claimed: the first transient failure after the streams were opened
\* successfully sleeps exactly 5 seconds.
C3_ClaimedResetSleep ==
    [][\A w \in Workers :
          (pc[w] \in {"g_sub", "g_com"} /\ pc'[w] = "g_backoff")
              => sleep_for'[w] = 5]_vars

\* C3 as amended: the first transient failure after the streams were opened
\* successfully sleeps exactly 7 seconds, whatever the backoff had grown to
\* before the streams were opened.
C3_ResetSleep ==
    [][\A w \in Workers :
          (pc[w] \in {"g_sub", "g_com"} /\ pc'[w] = "g_backoff")
              => sleep_for'[w] = 7]_vars

\* C3 witness: the generator sleeps 7 seconds for a failure raised while
\* streaming, the fourth failure of the session (as after the sleeps 7, 21
\* and 63 of three failed reopenings).
C3_Witness ==
    \E w \in Workers :
        /\ pc[w] = "g_backoff"
        /\ sleeps[w] = <<7>>
        /\ budget.faults = MaxFaults - 4
        /\ pulled[w] = [s \in Sources |-> 0]
        /\ item[w] = None

\* C4: while the generator exists, 5 <= backoff_seconds <= 120.
C4_BackoffBounds ==
    \A w \in Workers :
        InGen(w) => (5 <= backoff_seconds[w] /\ backoff_seconds[w] <= 120)

\* C4 witness: the backoff has grown to its cap.
C4_Witness ==
    \E w \in Workers : InGen(w) /\ backoff_seconds[w] = 120

\* C5 as claimed: once stop_monitoring has cleared the flag while the
\* generator of a worker exists, that worker ends, unless start_monitoring
\* sets the flag again.
C5_StopEndsWorker ==
    \A w \in Workers :
        (~running /\ InGen(w)) ~> (pc[w] = "done" \/ running)

\* C6 as claimed: at most one worker thread is alive.
C6_AtMostOneWorker == Cardinality({w \in Workers : Alive(w)}) <= 1

\* C7: once a worker has read the flag cleared, no item message of it is put
\* on the queue any more, and the item it held when it read the flag is not
\* among those delivered.
C7_NoItemAfterObservedStop ==
    /\ [](\A w \in Workers :
             (cause[w] = "stop" /\ pc[w] = "w_finally")
                 => item[w] \notin Delivered(w))
    /\ [][\A w \in Workers :
             cause[w] = "stop" => Delivered(w)' = Delivered(w)]_vars

\* C7 witness: a worker that delivered an item has read the flag cleared
\* while holding a second item, and is about to put its termination notice.
C7_Witness ==
    \E w \in Workers :
        /\ cause[w] = "stop"
        /\ pc[w] = "w_finally"
        /\ item[w] # None
        /\ Delivered(w) # {}

\* The termination messages ("Stopping Reddit monitor.") of session w in the
\* log, whether they came through the queue or from stop_monitoring.
Terminations(w) ==
    {i \in DOMAIN log_area : log_area[i].w = w /\ log_area[i].kind = "stopping"}

\* Every message of session w that was put on the queue has been logged.
Drained(w) == \A i \in DOMAIN message_queue : message_queue[i].w # w

\* C8 as claimed: once the worker of a session has exited and its messages
\* are logged, the log holds exactly one termination message of the session.
C8_ExactlyOneTermination ==
    \A w \in Workers :
        (pc[w] = "done" /\ Drained(w)) => Cardinality(Terminations(w)) = 1

\* The messages of session w in the log, in log order.
SessionLog(w) == SelectSeq(log_area, LAMBDA m : m.w = w)

\* C9 as claimed: once the worker of a session has exited and its messages
\* are logged, the messages of the session in the log begin with its start
\* confirmation and end with a termination message, and no item message of
\* the session follows a termination message of the session.
C9_StartFirstTerminationLast ==
    \A w \in Workers :
        (pc[w] = "done" /\ Drained(w)) =>
            LET L == SessionLog(w)
            IN  /\ L[1].kind = "start"
                /\ L[Len(L)].kind = "stopping"
                /\ \A i, j \in DOMAIN L :
                       (i < j /\ L[i].kind = "stopping") => L[j].kind # "item"

\* C10: an Access or Authorization failure ends the generator at once: while
\* the exception is in flight the worker is in its except clause, not in a
\* sleep and not reopening, and a generator that has ended stays ended and
\* hands the worker no further item.
C10_FatalEndsGenerator ==
    /\ [](\A w \in Workers : exc[w] \in FatalErrors => pc[w] = "w_except")
    /\ [][\A w \in Workers :
             pc[w] \in GenEnded
                 => /\ pc'[w] \in GenEnded
                    /\ Delivered(w)' = Delivered(w)]_vars

\* C10 witness: a Forbidden (a ResponseException) raised after an item was
\* delivered has ended the generator.
C10_Witness ==
    \E w \in Workers :
        /\ exc[w] = "Forbidden"
        /\ pc[w] = "w_except"
        /\ Delivered(w) # {}

\* C11 as claimed: whenever no worker is alive the running flag is false and
\* the controller is in its stopped state, from which a new start is
\* possible (start_button enabled), also after a worker has ended on a fatal
\* error.
C11_StoppedWhenNoWorker ==
    (\A w \in Workers : ~Alive(w))
        => (~running /\ start_button = "normal" /\ stop_button = "disabled")

\* The item numbers of a source.
ItemIds == 1..IdMod

\* Item k of source s has been made available to the stream of w and has not
\* been pulled from it.
InWindow(w, s, k) ==
    \E j \in 1..avail[w][s] : k = ((pulled[w][s] + j - 1) % IdMod) + 1

\* A failure has been raised in the script.
ScriptFailed == budget.faults < MaxScriptFaults

\* C12 as claimed: with no failures, whatever the two sources make available
\* and whenever, every available submission and every available comment is
\* eventually yielded, also when the submissions source never reports empty.
C12_EveryItemYielded ==
    \A s \in Sources : \A k \in ItemIds :
        InWindow(MainThread, s, k) ~> (~InWindow(MainThread, s, k) \/ ScriptFailed)

\* C12 as amended: with no failures, every available item of a source is
\* eventually yielded provided the for loop over the other source keeps
\* ending, that is, the other source reports empty again and again: the
\* submissions loop has ended when the generator is at the comments loop or
\* at the sleep, the comments loop has ended when it is at the sleep.
C12_YieldedIfOtherSourceDrains ==
    /\ ([]<>(pc[MainThread] = "g_idle"))
           => \A k \in ItemIds :
                  InWindow(MainThread, "submissions", k)
                      ~> (~InWindow(MainThread, "submissions", k) \/ ScriptFailed)
    /\ ([]<>(pc[MainThread] \in {"g_com", "g_idle"}))
           => \A k \in ItemIds :
                  InWindow(MainThread, "comments", k)
                      ~> (~InWindow(MainThread, "comments", k) \/ ScriptFailed)

\* C12 witness: with no failure so far, a comment is yielded in a pass that
\* yielded a submission before it.
C12_Witness ==
    /\ pc[MainThread] = "m_print"
    /\ item[MainThread][1] = "comments"
    /\ pulled[MainThread]["submissions"] > 0
    /\ ~ScriptFailed

\* The items the generator of worker w has yielded, in yield order: those
\* the worker has put on the queue, then the one it holds.
YieldedSeq(w) ==
    LET P == SelectSeq(puts, LAMBDA m : m.w = w /\ m.kind = "item")
        put == [i \in DOMAIN P |-> P[i].item]
    IN  IF pc[w] \in {"w_check", "w_put"} THEN Append(put, item[w]) ELSE put

\* C13: the merged output preserves the order of each source and repeats no
\* item: of two yielded items of one source, the one yielded first is the
\* one the source returned first (it has the lower number), over any number
\* of passes and reopenings.
C13_OrderPreserved ==
    \A w \in Workers :
        LET Y == YieldedSeq(w)
        IN  \A i, j \in DOMAIN Y :
                (i < j /\ Y[i][1] = Y[j][1]) => Y[i][2] < Y[j][2]

\* C13 witness: two items of one source have been yielded and the pass has
\* ended, in a session in which a failure occurred.
C13_Witness ==
    \E w \in Workers :
        LET Y == YieldedSeq(w)
        IN  /\ Len(Y) = 2
            /\ Y[1][1] = Y[2][1]
            /\ budget.faults < MaxFaults
            /\ pc[w] = "g_idle"

\* C14: whatever the interleaving of puts and check_queue runs, the messages
\* check_queue has passed to log(), followed by those still on the queue,
\* are exactly the messages put, in put order (none dropped, repeated or
\* reordered), and check_queue can run (it does not block) when the queue is
\* empty.
C14_QueueFifo ==
    /\ handed \o message_queue = puts
    /\ message_queue = <<>> => ENABLED CheckQueue

\* C14 witness: check_queue has run between puts: of the messages put, two
\* or more have been handed to log() and two or more are still queued.
C14_Witness ==
    /\ Len(puts) >= 4
    /\ Len(handed) >= 2
    /\ Len(message_queue) >= 2

\* What a message says, without the session it belongs to.
Payload(m) == [kind |-> m.kind, item |-> m.item, error |-> m.error]

\* The termination messages worker w has put on the queue.
TerminationPayloads(w) ==
    {Payload(puts[i]) : i \in {j \in DOMAIN puts :
                                   puts[j].w = w /\ puts[j].kind = "stopping"}}

\* C15 as claimed: the payload of the termination message tells the exit
\* cause: two workers that ended for different causes (a stop observed, an
\* error) have put termination messages with different payloads.
C15_TerminationTellsCause ==
    \A v, w \in Workers :
        (pc[v] = "done" /\ pc[w] = "done" /\ cause[v] # cause[w])
            => TerminationPayloads(v) \cap TerminationPayloads(w) = {}

\* C16 as claimed: with one required variable unset, initialize_reddit fails
\* with a ValueError before the authentication check: no worker is at the
\* network call reddit.user.me() with a required variable unset, and the
\* exception raised for the incomplete configuration is a ValueError.
C16_MissingFieldRejected ==
    \A w \in Workers :
        /\ pc[w] = "w_auth" => cfg_missing[w] = {}
        /\ exc[w] # "MissingRequiredAttributeException"

\* C17: an unknown failure while streaming puts the generator in a sleep of
\* exactly 15 seconds, after which it reconnects, and the handler leaves the
\* backoff as it was: backoff_seconds is the same when the sleep begins and
\* when the handler is left as it was before the failure.
C17_UnknownKeepsBackoff ==
    /\ [](\A w \in Workers :
             pc[w] = "g_sleep15"
                 => (exc[w] = "Exception" /\ sleeping[w] = 15 * 1000))
    /\ [][\A w \in Workers :
             /\ (pc[w] # "g_sleep15" /\ pc'[w] = "g_sleep15")
                    => backoff_seconds'[w] = backoff_seconds[w]
             /\ (pc[w] = "g_sleep15" /\ pc'[w] # "g_sleep15")
                    => /\ pc'[w] = "g_open"
                       /\ backoff_seconds'[w] = backoff_seconds[w]]_vars

\* C17 witness: the 15 s sleep is in progress for an unknown failure raised
\* while the streams were reopened after a transient failure, the backoff
\* having grown to 14.
C17_Witness ==
    \E w \in Workers :
        /\ pc[w] = "g_sleep15"
        /\ backoff_seconds[w] = 14

\* The failure handlers' sleeps.
HandlerPcs == {"g_backoff", "g_sleep15"}

\* Each pass drains the submissions source until it reports empty and then
\* the comments source until it reports empty; the sleep is followed by the
\* next pass.
PassOrder(w) ==
    /\ (pc[w] = "g_sub" /\ pc'[w] \in GenPcs \ {"g_sub"})
           => \/ pc'[w] \in HandlerPcs
              \/ pc'[w] = "g_com" /\ avail[w]["submissions"] = 0
    /\ (pc[w] = "g_com" /\ pc'[w] \in GenPcs \ {"g_com"})
           => \/ pc'[w] \in HandlerPcs
              \/ pc'[w] = "g_idle" /\ avail[w]["comments"] = 0
    /\ (pc[w] = "g_idle" /\ pc'[w] # "g_idle") => pc'[w] = "g_sub"

\* C18 as claimed: the passes drain submissions, then comments, and the
\* 0.5 s sleep is taken after a pass if and only if the pass yielded no item.
C18_SleepIffIdlePass ==
    /\ [](\A w \in Workers :
             pc[w] = "g_idle" => (sleeping[w] = 500 /\ ~pass_yielded[w]))
    /\ [][\A w \in Workers : PassOrder(w)]_vars

\* C18 as amended: the passes drain submissions, then comments, and the
\* 0.5 s sleep is taken after every pass, whether or not the pass yielded
\* items.
C18_SleepAfterEveryPass ==
    /\ [](\A w \in Workers : pc[w] = "g_idle" => sleeping[w] = 500)
    /\ [][\A w \in Workers : PassOrder(w)]_vars

\* C18 witness: the 0.5 s sleep is in progress after a pass that yielded an
\* item of each source.
C18_Witness ==
    \E w \in Workers :
        /\ pc[w] = "g_idle"
        /\ pass_yielded[w]
        /\ pulled[w] = [s \in Sources |-> 1]

PutsOf(w) == SelectSeq(puts, LAMBDA m : m.w = w)

\* C20: for each worker, on every exit path, the first message it puts is
\* the start confirmation (put once), the last is the "Stopping Reddit
\* monitor." notice, put exactly once and only as the worker ends, and an
\* "Error:" message, when there is one, is put immediately before that
\* notice.
C20_WorkerMessageFrame ==
    \A w \in Workers :
        LET P == PutsOf(w)
            stops == {i \in DOMAIN P : P[i].kind = "stopping"}
        IN  /\ \A i \in DOMAIN P : (P[i].kind = "start") <=> (i = 1)
            /\ pc[w] = "done" => (stops = {Len(P)} /\ Len(P) >= 2)
            /\ pc[w] # "done" => stops = {}
            /\ \A i \in DOMAIN P :
                   P[i].kind = "error"
                       => \/ i = Len(P) /\ pc[w] = "w_finally"
                          \/ i = Len(P) - 1 /\ P[Len(P)].kind = "stopping"

\* C20 witness: a worker has ended on an exception propagated from the
\* generator after an item was put: start, connected, item, error, stopping.
C20_Witness ==
    \E w \in Workers :
        LET P == PutsOf(w)
        IN  /\ pc[w] = "done"
            /\ Len(P) = 5
            /\ P[3].kind = "item"
            /\ P[4].kind = "error"
            /\ P[4].error \in FatalErrors

=============================================================================
